---- MODULE Spec2Model ----
(***************************************************************************)
(* Model of util/span.py: merge_spans, invert_spans and the SpanSet class. *)
(*                                                                         *)
(* A span is a pair <<min, max>> (Python tuple (min, max)), a span list is *)
(* a sequence of spans.  Python indices are 0-based; the operators below   *)
(* keep the 0-based indices i and j of the source and go through At,       *)
(* DelAt, InsertAt and DelSlice to touch the 1-based TLA+ sequences.       *)
(* None and the empty tuple are both falsy in Python; the absent           *)
(* span_min_max is modelled by the empty tuple <<>>.                       *)
(* Callers in this model always pass a list, so the "spans is None"        *)
(* checks (lines 12-13 and 80-81) never fire and are not modelled.         *)
(***************************************************************************)
EXTENDS Integers, Sequences, FiniteSets, TLC

VARIABLES input, spans, span_min_max, prev, ret, pc, raised

vars == <<input, spans, span_min_max, prev, ret, pc, raised>>

(***************************************************************************)
(* Bounds of the model.                                                    *)
(***************************************************************************)
MaxVal == 4
MaxLen == 3
MaxInit == 2
MaxExt == 2
MaxSetLen == 3
MaxInvVal == 5
MaxInvLen == 3

Values == 0..MaxVal

AllSpans == Values \X Values

RECURSIVE ListsUpTo(_, _)
ListsUpTo(S, n) ==
  IF n = 0 THEN {<<>>}
  ELSE LET shorter == ListsUpTo(S, n - 1)
       IN shorter \cup {Append(l, s) : l \in {x \in shorter : Len(x) = n - 1}, s \in S}

\* Python's order on 2-tuples: lexicographic.
TupleLessEq(s, t) == s[1] < t[1] \/ (s[1] = t[1] /\ s[2] <= t[2])

\* The lists of ListsUpTo(S, n) that are in ascending tuple order: one list
\* for each multiset of spans.
RECURSIVE AscendingListsUpTo(_, _)
AscendingListsUpTo(S, n) ==
  IF n = 0 THEN {<<>>}
  ELSE LET shorter == AscendingListsUpTo(S, n - 1)
           longest == {x \in shorter : Len(x) = n - 1}
           After(l) == {y \in S : l = <<>> \/ TupleLessEq(l[Len(l)], y)}
       IN shorter \cup UNION {{Append(l, s) : s \in After(l)} : l \in longest}

NoBound == <<>>
Bounds == {NoBound} \cup AllSpans

\* invert_spans is given spans and bounds over one more value than
\* merge_spans, so that a bound can end strictly inside a span that has two
\* disjoint spans nested in it.
InvValues == 0..MaxInvVal
InvSpans == {s \in InvValues \X InvValues : s[1] <= s[2]}
InvBounds == {NoBound} \cup (InvValues \X InvValues)

(***************************************************************************)
(* Python list primitives, on 0-based indices.                             *)
(***************************************************************************)
At(l, i) == l[i + 1]

DelAt(l, i) == SubSeq(l, 1, i) \o SubSeq(l, i + 2, Len(l))

InsertAt(l, i, x) == SubSeq(l, 1, i) \o <<x>> \o SubSeq(l, i + 1, Len(l))

\* del l[a:b]
DelSlice(l, a, b) == SubSeq(l, 1, a) \o SubSeq(l, b + 1, Len(l))

RECURSIVE SortedInsert(_, _)
SortedInsert(x, l) ==
  IF l = <<>> THEN <<x>>
  ELSE IF TupleLessEq(x, Head(l)) THEN <<x>> \o l
  ELSE <<Head(l)>> \o SortedInsert(x, Tail(l))

\* sorted(spans) / spans.sort(): the order on tuples is total, so the sorted
\* list is unique and insertion sort computes it.
RECURSIVE sorted(_)
sorted(l) == IF l = <<>> THEN <<>> ELSE SortedInsert(Head(l), sorted(Tail(l)))

\* Truthiness of span_min_max in "if span_min_max and ...".
Truthy(b) == b # <<>>

(***************************************************************************)
(* merge_spans                                                             *)
(***************************************************************************)
\* "current_min == current_max" / "candidate_min == candidate_max"
IsEmptySpan(s) == s[1] = s[2]

\* "elif current_max < current_min" / "elif candidate_max < candidate_min"
MaxLessThanMin(s) == s[2] < s[1]

\* "if current_min <= candidate_max and candidate_min <= current_max"
Mergeable(current_span, candidate_span) ==
  current_span[1] <= candidate_span[2] /\ candidate_span[1] <= current_span[2]

\* Line 125 keeping the candidate instead of the smallest minimum and the
\* largest maximum.
MergedSpanKeepsCandidate(current_span, candidate_span) == candidate_span

\* The merge result of line 125.
MergedSpan(current_span, candidate_span) ==
  << IF current_span[1] <= candidate_span[1] THEN current_span[1] ELSE candidate_span[1],
     IF current_span[2] >= candidate_span[2] THEN current_span[2] ELSE candidate_span[2] >>

RECURSIVE merge_outer(_, _)

\* Lines 133-139: replace the merged run by the current span, continue at j.
merge_after(l, i, j, current_span) ==
  IF j # i - 1
    THEN merge_outer(InsertAt(DelSlice(l, j + 1, i + 1), j + 1, current_span), j)
    ELSE merge_outer(l, j)

\* Lines 107-131: the inner while loop over the candidates below i.
RECURSIVE merge_inner(_, _, _, _)
merge_inner(l, i, j, current_span) ==
  IF j >= 0
    THEN LET candidate_span == At(l, j)
         IN IF IsEmptySpan(candidate_span)
              THEN merge_inner(DelAt(l, j), i - 1, (i - 1) - 1, current_span)
            ELSE IF MaxLessThanMin(candidate_span)
              THEN [err |-> "ValueError", list |-> l]
            ELSE IF Mergeable(current_span, candidate_span)
              THEN merge_inner(l, i, j - 1, MergedSpan(current_span, candidate_span))
            ELSE merge_after(l, i, j, current_span)
    ELSE merge_after(l, i, j, current_span)

\* The outer loop without the check of lines 103-104 on the current span.
merge_outer_unchecked(l, i) ==
  IF i >= 0
    THEN LET current_span == At(l, i)
         IN IF IsEmptySpan(current_span)
              THEN merge_outer(DelAt(l, i), i - 1)
            ELSE merge_inner(l, i, i - 1, current_span)
    ELSE [err |-> "none", list |-> l]

\* Lines 92-106: the outer while loop; l is the list as mutated so far.
merge_outer(l, i) ==
  IF i >= 0
    THEN LET current_span == At(l, i)
         IN IF IsEmptySpan(current_span)
              THEN merge_outer(DelAt(l, i), i - 1)
            ELSE IF MaxLessThanMin(current_span)
              THEN [err |-> "ValueError", list |-> l]
            ELSE merge_inner(l, i, i - 1, current_span)
    ELSE [err |-> "none", list |-> l]

\* merge_spans(spans, in_place).  err is the exception raised ("none" when
\* the call returns), val the result (the returned list, or the caller's
\* list after an in-place call), list the caller's list after the call.
merge_spans(l, in_place) ==
  LET start == sorted(l)
      r == merge_outer(start, Len(start) - 1)
  IN [err  |-> r.err,
      val  |-> IF r.err = "none" THEN r.list ELSE <<>>,
      list |-> IF in_place THEN r.list ELSE l]

(***************************************************************************)
(* invert_spans                                                            *)
(***************************************************************************)
\* Lines 42-48: the inversion loop.
RECURSIVE invert_loop(_, _)
invert_loop(l, i) ==
  IF i > 0
    THEN LET s == At(l, i)
             t == At(l, i - 1)
         IN invert_loop(InsertAt(DelAt(l, i), i, <<t[2], s[1]>>), i - 1)
    ELSE l

\* Lines 53-61: the leading span.
AddMinimum(l, b, span_min) ==
  IF Truthy(b)
    THEN IF Len(l) = 0
           THEN IF b[1] # span_min THEN Append(l, <<b[1], span_min>>) ELSE l
           ELSE IF b[1] # span_min THEN InsertAt(l, 0, <<b[1], span_min>>) ELSE l
    ELSE l

\* Lines 63-66 without the test of line 65.
AddMaximumAlways(l, b, span_max) ==
  IF Truthy(b) THEN Append(l, <<span_max, b[2]>>) ELSE l

\* Lines 63-66: the trailing span.
AddMaximum(l, b, span_max) ==
  IF Truthy(b) /\ b[2] # span_max THEN Append(l, <<span_max, b[2]>>) ELSE l

\* Lines 31-69, on the merged list m.
invert_merged(m, b) ==
  IF Len(m) = 0
    \* spans[0] on an empty list: line 32 when a bound is given, line 38 otherwise.
    THEN [err |-> "IndexError", list |-> m]
  ELSE IF Truthy(b) /\ At(m, 0)[1] < b[1]
    THEN [err |-> "ValueError", list |-> m]
  ELSE IF Truthy(b) /\ At(m, Len(m) - 1)[2] > b[2]
    THEN [err |-> "ValueError", list |-> m]
  ELSE LET span_min == At(m, 0)[1]
           span_max == At(m, Len(m) - 1)[2]
           inverted == DelAt(invert_loop(m, Len(m) - 1), 0)
       IN [err  |-> "none",
           list |-> AddMaximum(AddMinimum(inverted, b, span_min), b, span_max)]

\* invert_spans(spans, span_min_max, in_place); same outcome record as
\* merge_spans.
invert_spans(l, b, in_place) ==
  IF Truthy(b) /\ b[2] < b[1]
    THEN [err |-> "ValueError", val |-> <<>>, list |-> l]
  ELSE IF Truthy(b) /\ Len(l) = 0
    THEN [err |-> "none", val |-> <<b>>, list |-> IF in_place THEN <<b>> ELSE l]
  ELSE LET m == merge_spans(l, in_place)
       IN IF m.err # "none"
            THEN [err |-> m.err, val |-> <<>>, list |-> m.list]
            ELSE LET r == invert_merged(m.val, b)
                 IN [err  |-> r.err,
                     val  |-> IF r.err = "none" THEN r.list ELSE <<>>,
                     list |-> IF in_place THEN r.list ELSE l]

(***************************************************************************)
(* State machine.                                                          *)
(*   input         the argument of the first call, as the caller built it  *)
(*   spans         the list object the calls work on (the caller's list,   *)
(*                 or self.spans of the SpanSet)                           *)
(*   span_min_max  the bound passed to invert_spans                        *)
(*   ret           outcome of the last call, prev the one before           *)
(*   pc            position of the caller                                  *)
(*   raised        TRUE once a SpanSet mutation has raised                 *)
(***************************************************************************)
NoCall == [op |-> "none", err |-> "none", val |-> <<>>]

Outcome(op, r) == [op |-> op, err |-> r.err, val |-> r.val]

\* ---- direct calls of merge_spans ----
InitMerge ==
  /\ \E n \in 0..MaxLen : input \in [1..n -> AllSpans]
  /\ spans = input
  /\ span_min_max = NoBound
  /\ prev = NoCall
  /\ ret = NoCall
  /\ pc = "start"
  /\ raised = FALSE

CallMerge ==
  /\ pc = "start"
  /\ \E in_place \in BOOLEAN :
       LET r == merge_spans(spans, in_place)
       IN /\ ret' = Outcome("merge_spans", r)
          /\ spans' = r.list
  /\ prev' = ret
  /\ pc' = "merged"
  /\ UNCHANGED <<input, span_min_max, raised>>

\* merge_spans applied, on a copy, to the result of a successful merge_spans.
CallMergeAgain ==
  /\ pc = "merged"
  /\ ret.err = "none"
  /\ LET r == merge_spans(ret.val, FALSE)
     IN /\ ret' = Outcome("merge_spans", r)
        /\ spans' = r.list
  /\ prev' = ret
  /\ pc' = "remerged"
  /\ UNCHANGED <<input, span_min_max, raised>>

NextMerge == CallMerge \/ CallMergeAgain

SpecMerge == InitMerge /\ [][NextMerge]_vars

\* ---- direct calls of invert_spans ----
\* The first thing invert_spans does with a non-empty list is to sort it, so
\* the lists are drawn in ascending order, one for each multiset of spans.
InitInvert ==
  /\ input \in AscendingListsUpTo(InvSpans, MaxInvLen)
  /\ spans = input
  /\ span_min_max \in InvBounds
  /\ prev = NoCall
  /\ ret = NoCall
  /\ pc = "start"
  /\ raised = FALSE

CallInvert ==
  /\ pc = "start"
  /\ \E in_place \in BOOLEAN :
       LET r == invert_spans(spans, span_min_max, in_place)
       IN /\ ret' = Outcome("invert_spans", r)
          /\ spans' = r.list
  /\ prev' = ret
  /\ pc' = "inverted"
  /\ UNCHANGED <<input, span_min_max, raised>>

\* invert_spans applied, on a copy, to the result of a successful
\* invert_spans, with the same bound.
CallInvertAgain ==
  /\ pc = "inverted"
  /\ ret.err = "none"
  /\ LET r == invert_spans(ret.val, span_min_max, FALSE)
     IN /\ ret' = Outcome("invert_spans", r)
        /\ spans' = r.list
  /\ prev' = ret
  /\ pc' = "reinverted"
  /\ UNCHANGED <<input, span_min_max, raised>>

NextInvert == CallInvert \/ CallInvertAgain

SpecInvert == InitInvert /\ [][NextInvert]_vars

\* ---- SpanSet ----
\* SpanSet.__init__: self.spans = merge_spans(spans).  A constructor that
\* raises leaves no object, so the initial states are the successful ones.
Init ==
  /\ \E initial \in ListsUpTo(AllSpans, MaxInit) :
       /\ merge_spans(initial, FALSE).err = "none"
       /\ spans = merge_spans(initial, FALSE).val
  /\ input = <<>>
  /\ span_min_max = NoBound
  /\ prev = NoCall
  /\ ret = NoCall
  /\ pc = "ready"
  /\ raised = FALSE

\* The mutation shared by add and extend: self.spans grows by the new
\* spans, then merge_spans(self.spans, in_place=True).  The exploration
\* follows a set up to the first mutation that raises (the queries stay
\* enabled after it) and up to MaxSetLen spans.
Mutate(op, new) ==
  /\ pc = "ready"
  /\ ~raised
  /\ Len(spans) + Len(new) <= MaxSetLen
  /\ LET r == merge_spans(spans \o new, TRUE)
     IN /\ spans' = r.list
        /\ ret' = [op |-> op, err |-> r.err, val |-> <<>>]
        /\ raised' = (r.err # "none")
  /\ UNCHANGED <<input, span_min_max, prev, pc>>

\* SpanSet.add
add == \E span \in AllSpans : Mutate("add", <<span>>)

\* SpanSet.extend
extend == \E new \in ListsUpTo(AllSpans, MaxExt) : Mutate("extend", new)

\* SpanSet.minimum
minimum ==
  /\ pc = "ready"
  /\ ret' = IF Len(spans) = 0
              THEN [op |-> "minimum", err |-> "IndexError", val |-> <<>>]
              ELSE [op |-> "minimum", err |-> "none", val |-> At(spans, 0)[1]]
  /\ UNCHANGED <<input, spans, span_min_max, prev, pc, raised>>

\* SpanSet.maximum
maximum ==
  /\ pc = "ready"
  /\ ret' = IF Len(spans) = 0
              THEN [op |-> "maximum", err |-> "IndexError", val |-> <<>>]
              ELSE [op |-> "maximum", err |-> "none", val |-> At(spans, Len(spans) - 1)[2]]
  /\ UNCHANGED <<input, spans, span_min_max, prev, pc, raised>>

\* SpanSet.inside
inside ==
  /\ pc = "ready"
  /\ \E value \in Values :
       ret' = [op |-> "inside", err |-> "none",
               val |-> \E k \in 1..Len(spans) : spans[k][1] <= value /\ value < spans[k][2]]
  /\ UNCHANGED <<input, spans, span_min_max, prev, pc, raised>>

\* SpanSet.invert: a new SpanSet whose spans are invert_spans(self.spans,
\* span_min_max); val is the new set's list, self.spans is left alone.
invert ==
  /\ pc = "ready"
  /\ \E b \in Bounds :
       ret' = Outcome("invert", invert_spans(spans, b, FALSE))
  /\ UNCHANGED <<input, spans, span_min_max, prev, pc, raised>>

Next == add \/ extend \/ minimum \/ maximum \/ inside \/ invert

Spec == Init /\ [][Next]_vars

(***************************************************************************)
(* Properties.                                                             *)
(***************************************************************************)
\* Every span of l has min <= max.
AllWellFormed(l) == \A k \in 1..Len(l) : l[k][1] <= l[k][2]

\* Some span of l has max < min.
HasMalformed(l) == \E k \in 1..Len(l) : l[k][2] < l[k][1]

\* l is sorted, has no empty or malformed span, and adjacent spans neither
\* overlap nor touch.
Normalized(l) ==
  /\ \A k \in 1..Len(l) : l[k][1] < l[k][2]
  /\ \A k \in 1..(Len(l) - 1) : l[k][2] < l[k + 1][1]

\* v lies in [min, max) of some span of l.
Covers(l, v) == \E k \in 1..Len(l) : l[k][1] <= v /\ v < l[k][2]

\* The bound b contains every span of l.
Contains(b, l) == \A k \in 1..Len(l) : b[1] <= l[k][1] /\ l[k][2] <= b[2]

\* l is sorted ascending and pairwise disjoint.
SortedDisjoint(l) == \A k \in 1..(Len(l) - 1) : l[k][2] <= l[k + 1][1]

NonEmptyCount(l) == Cardinality({k \in 1..Len(l) : l[k][1] < l[k][2]})

\* C1: for every collection of well-formed spans, merge_spans returns a
\* list that is sorted, has no empty span, and whose adjacent spans satisfy
\* s_i.hi < s_(i+1).lo.
C1_MergeNormalized ==
  (pc = "merged" /\ AllWellFormed(input)) =>
     (ret.err = "none" /\ Normalized(ret.val))

\* C2: for every collection S of well-formed spans and every value v, v is
\* covered by merge_spans(S) iff v is covered by S; two non-empty spans
\* that touch are joined into one, two that are separated by a positive gap
\* are both kept.
C2_CoveragePreserved ==
  (pc = "merged" /\ AllWellFormed(input)) =>
     /\ ret.err = "none"
     /\ \A v \in Values : Covers(ret.val, v) <=> Covers(input, v)
     /\ (Len(input) = 2 /\ NonEmptyCount(input) = 2) =>
          LET s == sorted(input)
          IN /\ (s[1][2] = s[2][1]) => ret.val = << <<s[1][1], s[2][2]>> >>
             /\ (s[1][2] < s[2][1]) => ret.val = s

C2_Witness ==
  /\ pc = "merged"
  /\ AllWellFormed(input)
  /\ Len(input) = 3
  /\ NonEmptyCount(input) = 3
  /\ Len(ret.val) = 2
  /\ \E k \in 1..2 : input[k][2] = input[k + 1][1]

\* C3: merge_spans(merge_spans(S)) = merge_spans(S) for every collection S
\* of well-formed spans.
C3_MergeIdempotent ==
  (pc = "remerged" /\ AllWellFormed(input)) =>
     (ret.err = "none" /\ ret.val = prev.val)

\* C4: for every non-empty normalized S and every bound B with
\* B.min <= lowest lo of S and highest hi of S <= B.max, both inversions
\* succeed and invert_spans(invert_spans(S, B), B) = merge_spans(S).
C4_Precondition ==
  /\ input # <<>>
  /\ Normalized(input)
  /\ Truthy(span_min_max)
  /\ span_min_max[1] <= input[1][1]
  /\ input[Len(input)][2] <= span_min_max[2]

C4_DoubleInversion ==
  C4_Precondition =>
     /\ pc = "inverted" => ret.err = "none"
     /\ pc = "reinverted" =>
          (ret.err = "none" /\ ret.val = merge_spans(input, FALSE).val)

\* S covers the whole bound, the first inversion is empty.
C4_Witness ==
  /\ pc = "reinverted"
  /\ C4_Precondition
  /\ prev.val = <<>>
  /\ ret.val = input

\* C5: for every collection S of well-formed spans and every bound B that
\* contains all of S, invert_spans(S, B) returns a list that is sorted and
\* pairwise disjoint and that covers, inside the bound, exactly the values
\* S does not cover.
C5_Complement ==
  (/\ pc = "inverted"
   /\ Truthy(span_min_max)
   /\ span_min_max[1] <= span_min_max[2]
   /\ Contains(span_min_max, input)) =>
     /\ ret.err = "none"
     /\ SortedDisjoint(ret.val)
     /\ \A v \in InvValues :
          (span_min_max[1] <= v /\ v < span_min_max[2]) =>
             (Covers(ret.val, v) <=> ~Covers(input, v))

\* C6: after construction and any sequence of add and extend calls that all
\* succeeded, the internal list of the SpanSet is normalized.
C6_SetNormalized == ~raised => Normalized(spans)

\* C7: invert_spans(S, B) of a non-empty collection S of well-formed spans
\* raises the argument error whenever some span of S has lo < B.min or
\* hi > B.max.
C7_BoundMismatchRaises ==
  (/\ pc = "inverted"
   /\ Truthy(span_min_max)
   /\ input # <<>>
   /\ ~Contains(span_min_max, input)) =>
     ret.err = "ValueError"

\* C8: invert_spans(S) with no bound returns the empty list, without
\* raising, whenever S has fewer than 2 non-empty spans.
C8_UnboundedSmallInputEmpty ==
  (/\ pc = "inverted"
   /\ ~Truthy(span_min_max)
   /\ NonEmptyCount(input) < 2) =>
     (ret.err = "none" /\ ret.val = <<>>)

\* C9: merge_spans raises the invalid-span error for every collection that
\* contains a span with hi < lo, whatever its position and the other spans.
C9_MalformedRejected ==
  (pc = "merged" /\ HasMalformed(input)) => ret.err = "ValueError"

\* A malformed span below a non-empty span and an empty one.
C9_Witness ==
  /\ pc = "merged"
  /\ Len(input) = 3
  /\ input[1][2] < input[1][1]
  /\ input[2][1] < input[2][2]
  /\ input[3][1] = input[3][2]
  /\ input[1][1] < input[2][1]
  /\ ret.err = "ValueError"

\* C10: when add or extend raises because of a span with hi < lo, the
\* internal list of the SpanSet is still normalized at the return of the
\* call.
C10_NormalizedAfterFailure ==
  (ret.op \in {"add", "extend"} /\ ret.err = "ValueError") => Normalized(spans)

====
